---------------------------- MODULE Spec2Model ----------------------------
(***************************************************************************)
(* A model of collatz.c: the tree of reachable numbers (create, destroy,   *)
(* insert_into_leaf, insert_into_internal, insert, lookup, fprintnodes),    *)
(* the work queue (work_append, work_fetch) and the two exploration        *)
(* strategies (collatz_r, collatz_i) started by collatz().                 *)
(*                                                                         *)
(* Memory.  The heap maps the address of every live node to its struct     *)
(* node.  The address of a node is its path from the root, a sequence of   *)
(* "left"/"right": a node is only ever allocated to be stored in one       *)
(* child field of its parent, and nodes never move.  A pointer is a        *)
(* sequence of length at most one: NULL is the empty sequence and <<a>>    *)
(* points to address a.                                                    *)
(*                                                                         *)
(* Control.  The C functions mutate globals; each is an operator from the  *)
(* record of all globals (a "machine" m) to the updated record.  The       *)
(* recursive functions insert() and collatz_r() are cut at their recursive *)
(* calls: the active invocations are explicit stacks, and one action runs  *)
(* one invocation from where it stands to its next call or its return.     *)
(***************************************************************************)
EXTENDS Integers, Sequences, FiniteSets, TLC

VARIABLES
    heap,        \* the live nodes, by address
    root,        \* static node *root
    proven,      \* static node *proven
    provenFreed, \* TRUE when the node proven points to has been free()d
    nodes,       \* static unsigned int nodes
    maxnodes,    \* static unsigned int maxnodes
    maxdepth,    \* static unsigned int maxdepth
    maxrecurse,  \* static unsigned int maxrecurse
    depth,       \* static uintmax_t depth of collatz_r()
    queue,       \* static uintmax_t queue[]: the nonzero entries, by index
    qr,          \* read cursor
    qw,          \* write cursor
    qsize,       \* capacity of queue[] in this build
    stop,        \* static uintmax_t stop
    opt_i,       \* static bool opt_i
    aborted,     \* an assert() has failed
    stack,       \* active collatz_r() invocations, innermost last
    istack,      \* active insert() invocations, innermost last
    ret,         \* the value the last insert() invocation returned
    num,         \* the local num of collatz_i()
    pc,          \* position of the program
    ref,         \* 1, 2 and every integer of a range passed to insert()
    recorded,    \* 1, 2 and every integer for which insert() returned false
    expanded,    \* candidates the explorer derived successors from
    dropped,     \* number of work_append() calls that returned false
    lastIns,     \* the range of the last insert() call on the root, or <<>>
    before,      \* the tree before a repeated insert() call, or <<>>
    steps,       \* number of calls made by the insert or the queue driver
    output,      \* what a finished earlier run of the program printed
    pending,     \* the values appended to the queue and not yet fetched
    qlast,       \* the last queue operation: its result and the queue before
    offered,     \* every value passed to work_append()
    deepest,     \* the largest number of collatz_r() invocations active at once
    atCall,      \* the tree when insert() was last called on the root, or <<>>
    dispatched   \* <<v, c>>: candidate c was derived from the inserted value v

vars == <<heap, root, proven, provenFreed, nodes, maxnodes, maxdepth,
          maxrecurse, depth, queue, qr, qw, qsize, stop, opt_i, aborted,
          stack, istack, ret, num, pc, ref, recorded, expanded, dropped,
          lastIns, before, steps, output, pending, qlast, offered, deepest,
          atCall, dispatched>>

-----------------------------------------------------------------------------
(* Bounds of the model and constants of the program *)

WORKQUEUE_SIZE == 1048576

MinLog2 == 3

MaxLog2 == 10

SmallQueue == 2

MaxVal == 8

MaxInserts == 4

MaxItem == 3

MaxOps == 7

NULL == <<>>

Pow2(k) == 2 ^ k

\* The machine: the record of all globals.
State ==
    [heap |-> heap, root |-> root, proven |-> proven,
     provenFreed |-> provenFreed, nodes |-> nodes, maxnodes |-> maxnodes,
     maxdepth |-> maxdepth, maxrecurse |-> maxrecurse, depth |-> depth,
     queue |-> queue, qr |-> qr, qw |-> qw, qsize |-> qsize, stop |-> stop,
     opt_i |-> opt_i, aborted |-> aborted, stack |-> stack,
     istack |-> istack, ret |-> ret, num |-> num, pc |-> pc, ref |-> ref,
     recorded |-> recorded, expanded |-> expanded, dropped |-> dropped,
     lastIns |-> lastIns, before |-> before, steps |-> steps,
     output |-> output, pending |-> pending, qlast |-> qlast,
     offered |-> offered, deepest |-> deepest, atCall |-> atCall,
     dispatched |-> dispatched]

\* The globals become the values of machine m.
Becomes(m) ==
    /\ heap' = m.heap
    /\ root' = m.root
    /\ proven' = m.proven
    /\ provenFreed' = m.provenFreed
    /\ nodes' = m.nodes
    /\ maxnodes' = m.maxnodes
    /\ maxdepth' = m.maxdepth
    /\ maxrecurse' = m.maxrecurse
    /\ depth' = m.depth
    /\ queue' = m.queue
    /\ qr' = m.qr
    /\ qw' = m.qw
    /\ qsize' = m.qsize
    /\ stop' = m.stop
    /\ opt_i' = m.opt_i
    /\ aborted' = m.aborted
    /\ stack' = m.stack
    /\ istack' = m.istack
    /\ ret' = m.ret
    /\ num' = m.num
    /\ pc' = m.pc
    /\ ref' = m.ref
    /\ recorded' = m.recorded
    /\ expanded' = m.expanded
    /\ dropped' = m.dropped
    /\ lastIns' = m.lastIns
    /\ before' = m.before
    /\ steps' = m.steps
    /\ output' = m.output
    /\ pending' = m.pending
    /\ qlast' = m.qlast
    /\ offered' = m.offered
    /\ deepest' = m.deepest
    /\ atCall' = m.atCall
    /\ dispatched' = m.dispatched

\* The globals hold the values of machine m.
Is(m) ==
    /\ heap = m.heap
    /\ root = m.root
    /\ proven = m.proven
    /\ provenFreed = m.provenFreed
    /\ nodes = m.nodes
    /\ maxnodes = m.maxnodes
    /\ maxdepth = m.maxdepth
    /\ maxrecurse = m.maxrecurse
    /\ depth = m.depth
    /\ queue = m.queue
    /\ qr = m.qr
    /\ qw = m.qw
    /\ qsize = m.qsize
    /\ stop = m.stop
    /\ opt_i = m.opt_i
    /\ aborted = m.aborted
    /\ stack = m.stack
    /\ istack = m.istack
    /\ ret = m.ret
    /\ num = m.num
    /\ pc = m.pc
    /\ ref = m.ref
    /\ recorded = m.recorded
    /\ expanded = m.expanded
    /\ dropped = m.dropped
    /\ lastIns = m.lastIns
    /\ before = m.before
    /\ steps = m.steps
    /\ output = m.output
    /\ pending = m.pending
    /\ qlast = m.qlast
    /\ offered = m.offered
    /\ deepest = m.deepest
    /\ atCall = m.atCall
    /\ dispatched = m.dispatched

\* assert(0), or an assert() whose condition is false: the program aborts.
Abort(m) == [m EXCEPT !.aborted = TRUE, !.pc = "aborted"]

-----------------------------------------------------------------------------
(* Tree of reachable numbers *)

LEAF_NODE(n) == n.left = NULL /\ n.right = NULL

\* The addresses of the nodes in the subtree of the node at address a.
IsPrefix(a, b) == Len(a) <= Len(b) /\ SubSeq(b, 1, Len(a)) = a

Subtree(h, a) == {b \in DOMAIN h : IsPrefix(a, b)}

\* A create() that leaves proven alone.
create_KeepsProven(m, a, d, first, last) ==
    LET n == [first |-> first, last |-> last, covered |-> last - first + 1,
              depth |-> d, left |-> NULL, right |-> NULL]
        cnt == (m.nodes + 1) + 1
    IN  [m EXCEPT !.heap = (a :> n) @@ @,
                  !.maxdepth = IF d > @ THEN d ELSE @,
                  !.nodes = cnt,
                  !.maxnodes = IF cnt > @ THEN cnt ELSE @]

\* create(): calloc a leaf at address a, set its fields, count it (nodes++
\* and then ++nodes), and point proven at it when it starts at 1.
create(m, a, d, first, last) ==
    LET n == [first |-> first, last |-> last, covered |-> last - first + 1,
              depth |-> d, left |-> NULL, right |-> NULL]
        cnt == (m.nodes + 1) + 1
    IN  [m EXCEPT !.heap = (a :> n) @@ @,
                  !.maxdepth = IF d > @ THEN d ELSE @,
                  !.nodes = cnt,
                  !.maxnodes = IF cnt > @ THEN cnt ELSE @,
                  !.proven = IF first = 1 THEN <<a>> ELSE @,
                  !.provenFreed = IF first = 1 THEN FALSE ELSE @]

\* destroy(): free the node p points to and, before it, its subtrees; every
\* freed node is counted out of nodes.
destroy(m, p) ==
    IF p = NULL
    THEN m
    ELSE LET gone == Subtree(m.heap, p[1])
         IN  [m EXCEPT !.heap = [b \in DOMAIN m.heap \ gone |-> m.heap[b]],
                       !.nodes = @ - Cardinality(gone),
                       !.provenFreed = @ \/ (m.proven # NULL
                                             /\ m.proven[1] \in gone)]

\* A sub-range test that misses a range starting at the node's first.
SubRange_Strict(n, first, last) == first > n.first /\ last <= n.last

\* The new range is a sub-range of node n.
SubRange(n, first, last) == first >= n.first /\ last <= n.last

\* insert_into_leaf() on the leaf at address a: sub-range, expansion, or
\* split into two leaves.
insert_into_leaf(m, a, first, last) ==
    LET n == m.heap[a]
        al == Append(a, "left")
        ar == Append(a, "right")
        split(m2) ==
            [m2 EXCEPT !.heap[a] =
                [@ EXCEPT !.left = <<al>>, !.right = <<ar>>,
                          !.first = m2.heap[al].first,
                          !.last = m2.heap[ar].last,
                          !.covered = m2.heap[al].covered
                                      + m2.heap[ar].covered]]
    IN  IF ~(n.left = NULL /\ n.right = NULL)
        THEN [found |-> FALSE, m |-> Abort(m)]
        ELSE IF SubRange(n, first, last)
        THEN [found |-> TRUE, m |-> m]
        ELSE IF first <= n.last + 1 /\ last >= n.first - 1
        THEN LET f == IF first < n.first THEN first ELSE n.first
                 l == IF last > n.last THEN last ELSE n.last
                 m1 == [m EXCEPT !.heap[a] =
                           [@ EXCEPT !.first = f, !.last = l,
                                     !.covered = l - f + 1]]
             IN  [found |-> FALSE,
                  m |-> IF f = 1
                        THEN [m1 EXCEPT !.proven = <<a>>,
                                        !.provenFreed = FALSE]
                        ELSE m1]
        ELSE IF last < n.first - 1
        THEN [found |-> FALSE,
              m |-> split(create(create(m, al, n.depth + 1, first, last),
                                 ar, n.depth + 1, n.first, n.last))]
        ELSE IF first > n.last + 1
        THEN [found |-> FALSE,
              m |-> split(create(create(m, al, n.depth + 1, n.first, n.last),
                                 ar, n.depth + 1, first, last))]
        ELSE [found |-> FALSE, m |-> Abort(m)]

\* A choice between the children that takes the left one on equal depth.
Shallowest_OrEqual(m, n) ==
    IF m.heap[n.left[1]].depth <= m.heap[n.right[1]].depth
    THEN n.left
    ELSE n.right

\* The child of n a range between the children is passed to: the left one
\* when its depth is smaller, otherwise the right one.
Shallowest(m, n) ==
    IF m.heap[n.left[1]].depth < m.heap[n.right[1]].depth
    THEN n.left
    ELSE n.right

\* insert_into_internal() on the node at address a, up to its return or its
\* call of insert() on a child: `descend` points to that child, if any.
insert_into_internal(m, a, first, last) ==
    LET n == m.heap[a]
        nl == m.heap[n.left[1]]
        nr == m.heap[n.right[1]]
    IN  IF ~(n.left # NULL /\ n.right # NULL)
        THEN [found |-> FALSE, descend |-> NULL, m |-> Abort(m)]
        ELSE IF first <= nl.last + 1 /\ last >= nr.first - 1
        THEN LET f == IF first < n.first THEN first ELSE n.first
                 l == IF last > n.last THEN last ELSE n.last
                 m1 == destroy(destroy(m, n.left), n.right)
                 m2 == [m1 EXCEPT !.heap[a] =
                           [@ EXCEPT !.first = f, !.last = l, !.left = NULL,
                                     !.right = NULL, !.covered = l - f + 1]]
             IN  [found |-> FALSE, descend |-> NULL,
                  m |-> IF f = 1
                        THEN [m2 EXCEPT !.proven = <<a>>,
                                        !.provenFreed = FALSE]
                        ELSE m2]
        ELSE IF first > nl.last + 1 /\ last < nr.first - 1
        THEN [found |-> FALSE,
              descend |-> Shallowest(m, n),
              m |-> m]
        ELSE IF last < nr.first - 1
        THEN [found |-> FALSE, descend |-> n.left, m |-> m]
        ELSE IF first > nl.last + 1
        THEN [found |-> FALSE, descend |-> n.right, m |-> m]
        ELSE [found |-> FALSE, descend |-> NULL, m |-> Abort(m)]

\* A recomputation that forgets the right child's share of covered.
FromChildren_StaleCovered(m, a) ==
    LET n == m.heap[a]
    IN  [m EXCEPT !.heap[a] =
            [@ EXCEPT !.first = m.heap[n.left[1]].first,
                      !.last = m.heap[n.right[1]].last,
                      !.covered = m.heap[n.left[1]].covered]]

\* The node at address a recomputed from its children.
FromChildren(m, a) ==
    LET n == m.heap[a]
    IN  [m EXCEPT !.heap[a] =
            [@ EXCEPT !.first = m.heap[n.left[1]].first,
                      !.last = m.heap[n.right[1]].last,
                      !.covered = m.heap[n.left[1]].covered
                                  + m.heap[n.right[1]].covered]]

\* The end of insert_into_internal() once insert() on a child has returned.
internal_tail(m, a, found) == IF found THEN m ELSE FromChildren(m, a)

\* The end of insert(): adjust coverage when the range was inserted.
insert_tail(m, a, found) ==
    IF found \/ m.aborted
    THEN m
    ELSE IF LEAF_NODE(m.heap[a])
    THEN [m EXCEPT !.heap[a].covered = m.heap[a].last - m.heap[a].first + 1]
    ELSE FromChildren(m, a)

\* The assertions at the head of insert().
InsertAsserts(m, n, first, last) ==
    /\ first <= last
    /\ (n.left = NULL) = (n.right = NULL)
    /\ (n.left = NULL \/ n.first = m.heap[n.left[1]].first)
    /\ (n.right = NULL \/ n.last = m.heap[n.right[1]].last)

\* Trivial cases that take any range sharing a bound with the node.
Trivial_SharedBound(n, first, last) ==
    \/ (first = n.first \/ last = n.last)
    \/ (LEAF_NODE(n) /\ first = n.first /\ last = n.last)

\* The trivial cases of insert().
Trivial(n, first, last) ==
    \/ (first = last /\ (first = n.first \/ last = n.last))
    \/ (LEAF_NODE(n) /\ first = n.first /\ last = n.last)

\* insert() returns: the innermost invocation ends with result `found`.
\* When it was the call on the root, the reference sets take note.
InsertReturns(m, found) ==
    LET fr == m.istack[Len(m.istack)]
        outer == Len(m.istack) = 1
        range == fr.first .. fr.last
    IN  [m EXCEPT !.istack = SubSeq(@, 1, Len(@) - 1),
                  !.ret = found,
                  !.ref = IF outer THEN @ \cup range ELSE @,
                  !.recorded = IF outer /\ ~found THEN @ \cup range ELSE @]

\* insert(n, first, last) from its entry to its return or, through
\* insert_into_internal(), to its call of insert() on a child of n.
insert_enter(m) ==
    LET fr == m.istack[Len(m.istack)]
        n == m.heap[fr.n]
    IN  IF ~InsertAsserts(m, n, fr.first, fr.last)
        THEN Abort(m)
        ELSE IF Trivial(n, fr.first, fr.last)
        THEN InsertReturns(m, TRUE)
        ELSE IF LEAF_NODE(n)
        THEN LET r == insert_into_leaf(m, fr.n, fr.first, fr.last)
             IN  IF r.m.aborted
                 THEN r.m
                 ELSE InsertReturns(insert_tail(r.m, fr.n, r.found), r.found)
        ELSE LET r == insert_into_internal(m, fr.n, fr.first, fr.last)
             IN  IF r.m.aborted
                 THEN r.m
                 ELSE IF r.descend = NULL
                 THEN InsertReturns(insert_tail(r.m, fr.n, r.found), r.found)
                 ELSE [r.m EXCEPT !.istack =
                          SubSeq(@, 1, Len(@) - 1)
                          \o <<[fr EXCEPT !.at = "descended"],
                               [n |-> r.descend[1], first |-> fr.first,
                                last |-> fr.last, at |-> "call"]>>]

\* insert(n, first, last) after insert() on a child of n has returned.
insert_resume(m) ==
    LET fr == m.istack[Len(m.istack)]
        m1 == internal_tail(m, fr.n, m.ret)
    IN  InsertReturns(insert_tail(m1, fr.n, m.ret), m.ret)

\* The call insert(root, first, last).
CallInsert(m, first, last) ==
    [m EXCEPT !.istack = <<[n |-> m.root[1], first |-> first, last |-> last,
                            at |-> "call"]>>,
              !.lastIns = <<first, last>>,
              !.atCall = <<m.heap>>]

\* lookup(): is x contained in the tree below the node at address a?
RECURSIVE lookup(_, _, _)
lookup(h, a, x) ==
    IF LEAF_NODE(h[a])
    THEN x >= h[a].first /\ x <= h[a].last
    ELSE IF x >= h[h[a].left[1]].first /\ x <= h[h[a].left[1]].last
    THEN lookup(h, h[a].left[1], x)
    ELSE IF x >= h[h[a].right[1]].first /\ x <= h[h[a].right[1]].last
    THEN lookup(h, h[a].right[1], x)
    ELSE FALSE

\* fprintnodes(): the leaves' ranges, left subtree before right subtree.
RECURSIVE fprintnodes(_, _)
fprintnodes(h, a) ==
    (IF h[a].left = NULL /\ h[a].right = NULL
     THEN <<<<h[a].first, h[a].last>>>>
     ELSE <<>>)
    \o (IF h[a].left # NULL THEN fprintnodes(h, h[a].left[1]) ELSE <<>>)
    \o (IF h[a].right # NULL THEN fprintnodes(h, h[a].right[1]) ELSE <<>>)

-----------------------------------------------------------------------------
(* Work queue for the iterative version *)

\* No queue operation has been made yet.
NoOp == [op |-> "none"]

\* queue[i]: an index that holds no entry reads 0.
QueueAt(q, i) == IF i \in DOMAIN q THEN q[i] ELSE 0

\* queue[i] = v
QueueSet(q, i, v) ==
    IF v = 0
    THEN [j \in DOMAIN q \ {i} |-> q[j]]
    ELSE (i :> v) @@ q

\* WORKQUEUE_DEPTH
WORKQUEUE_DEPTH(m) == (m.qw + m.qsize - m.qr) % m.qsize

\* A work_append() that keeps one slot free: full when the write cursor is
\* just behind the read cursor.
work_append_OneFree(m, v) ==
    IF (m.qw + 1) % m.qsize = m.qr
    THEN [ok |-> FALSE, m |-> m]
    ELSE [ok |-> TRUE,
          m |-> [m EXCEPT !.queue = QueueSet(@, m.qw, v),
                          !.qw = (m.qw + 1) % m.qsize]]

\* work_append()
work_append(m, v) ==
    IF m.qw = m.qr /\ QueueAt(m.queue, m.qw) # 0
    THEN [ok |-> FALSE, m |-> m]
    ELSE [ok |-> TRUE,
          m |-> [m EXCEPT !.queue = QueueSet(@, m.qw, v),
                          !.qw = (m.qw + 1) % m.qsize]]

\* A work_fetch() that takes equal cursors for an empty queue.
work_fetch_EqualCursors(m) ==
    IF m.qr = m.qw
    THEN [num |-> 0, m |-> m]
    ELSE [num |-> QueueAt(m.queue, m.qr),
          m |-> [m EXCEPT !.queue = QueueSet(@, m.qr, 0),
                          !.qr = (m.qr + 1) % m.qsize]]

\* A work_fetch() that leaves the fetched slot as it is.
work_fetch_NoClear(m) ==
    IF m.qr = m.qw /\ QueueAt(m.queue, m.qr) = 0
    THEN [num |-> 0, m |-> m]
    ELSE [num |-> QueueAt(m.queue, m.qr),
          m |-> [m EXCEPT !.qr = (m.qr + 1) % m.qsize]]

\* work_fetch()
work_fetch(m) ==
    IF m.qr = m.qw /\ QueueAt(m.queue, m.qr) = 0
    THEN [num |-> 0, m |-> m]
    ELSE [num |-> QueueAt(m.queue, m.qr),
          m |-> [m EXCEPT !.queue = QueueSet(@, m.qr, 0),
                          !.qr = (m.qr + 1) % m.qsize]]

-----------------------------------------------------------------------------
(* The explorer *)

\* root = create(0, 1, 2)
Seed(m) ==
    [create(m, <<>>, 0, 1, 2) EXCEPT !.root = <<<<>>>>, !.ref = {1, 2},
                                     !.recorded = {1, 2}]

\* A call of work_append(v): the history variables take note of the value,
\* of the result and of the queue as it was before the call.
Push(m, v) ==
    LET a == work_append(m, v)
    IN  [a.m EXCEPT !.dropped = IF a.ok THEN @ ELSE @ + 1,
                    !.pending = IF a.ok THEN Append(@, v) ELSE @,
                    !.offered = @ \cup {v},
                    !.qlast = [op |-> "append", val |-> v, ok |-> a.ok,
                               qr |-> m.qr, qw |-> m.qw, queue |-> m.queue,
                               pending |-> m.pending]]

\* A call of work_fetch(): the history variables take note of the result and
\* of the queue as it was before the call.
Fetch(m) ==
    LET f == work_fetch(m)
    IN  [num |-> f.num,
         m |-> [f.m EXCEPT !.pending = IF f.num = 0 \/ @ = <<>>
                                       THEN @
                                       ELSE Tail(@),
                           !.qlast = [op |-> "fetch", val |-> f.num,
                                      ok |-> f.num # 0, qr |-> m.qr,
                                      qw |-> m.qw, queue |-> m.queue,
                                      pending |-> m.pending]]]

\* A ceiling test that lets the ceiling itself through.
AtCeiling_Inclusive(m, v) == v > m.stop

\* A ceiling test against twice the ceiling.
AtCeiling_Double(m, v) == v >= 2 * m.stop

\* The ceiling test of both strategies: num >= stop.
AtCeiling(m, v) == v >= m.stop

\* No predecessor test: (num - 1) / 3 is always taken.
OddPredecessor_Always(n1) == TRUE

\* A predecessor test that only asks for a multiple of 3.
OddPredecessor_Mod3(n1) == n1 % 3 = 0

\* A predecessor test on the wrong residue.
OddPredecessor_Zero(n1) == n1 % 6 = 0

\* The test for an odd predecessor, on the decremented number: --num % 6 == 3.
OddPredecessor(n1) == n1 % 6 = 3

\* collatz(): seed the tree and start the chosen strategy.
collatz(m) ==
    LET s == Seed(m)
    IN  IF s.opt_i
        THEN [Push(s, 4) EXCEPT !.pc = "loop"]
        ELSE [s EXCEPT !.stack = <<[num |-> 4, at |-> "call"]>>, !.pc = "rec"]

\* collatz_i(): the head of the loop, to the call of insert().
collatz_i_fetch(m) ==
    LET f == Fetch(m)
    IN  IF f.num = 0
        THEN [f.m EXCEPT !.num = 0, !.pc = "done"]
        ELSE IF AtCeiling(m, f.num)
        THEN [f.m EXCEPT !.num = f.num]
        ELSE [CallInsert(f.m, f.num, f.num) EXCEPT !.num = f.num,
                                                   !.pc = "inserting"]

\* collatz_i(): the rest of the loop body, once insert() has returned.
collatz_i_inserted(m) ==
    IF m.ret
    THEN [m EXCEPT !.pc = "loop"]
    ELSE LET m1 == Push([m EXCEPT !.expanded = @ \cup {m.num},
                                  !.dispatched = @ \cup {<<m.num, m.num * 2>>}],
                        m.num * 2)
             n1 == m.num - 1
             m2 == IF OddPredecessor(n1)
                   THEN Push([m1 EXCEPT !.dispatched =
                                           @ \cup {<<m.num, n1 \div 3>>}],
                             n1 \div 3)
                   ELSE m1
         IN  [m2 EXCEPT !.num = n1, !.pc = "loop"]

\* return from collatz_r(): drop the innermost invocation.
Return(m) ==
    LET s == SubSeq(m.stack, 1, Len(m.stack) - 1)
    IN  [m EXCEPT !.stack = s, !.pc = IF s = <<>> THEN "done" ELSE @]

Top(m) == m.stack[Len(m.stack)]

SetTop(m, fr) ==
    [m EXCEPT !.stack = SubSeq(@, 1, Len(@) - 1) \o <<fr>>]

\* collatz_r() from its entry to its call of insert() or its early return.
collatz_r_enter(m) ==
    LET d == m.depth + 1
        m0 == [m EXCEPT !.depth = d,
                        !.maxrecurse = IF d > @ THEN d ELSE @,
                        !.deepest = IF Len(m.stack) > @
                                    THEN Len(m.stack)
                                    ELSE @]
    IN  IF AtCeiling(m, Top(m).num)
        THEN Return(m0)
        ELSE CallInsert(SetTop(m0, [Top(m) EXCEPT !.at = "insert"]),
                        Top(m).num, Top(m).num)

\* collatz_r() once insert() has returned: return, or call collatz_r(num * 2).
collatz_r_inserted(m) ==
    IF m.ret
    THEN Return(m)
    ELSE LET m1 == SetTop(m, [Top(m) EXCEPT !.at = "double"])
         IN  [m1 EXCEPT !.expanded = @ \cup {Top(m).num},
                        !.dispatched = @ \cup {<<Top(m).num, Top(m).num * 2>>},
                        !.stack = Append(@, [num |-> Top(m).num * 2,
                                             at |-> "call"])]

\* collatz_r() once collatz_r(num * 2) has returned.
collatz_r_double(m) ==
    LET n1 == Top(m).num - 1
    IN  IF OddPredecessor(n1)
        THEN [SetTop(m, [num |-> n1, at |-> "third"]) EXCEPT
                 !.dispatched = @ \cup {<<Top(m).num, n1 \div 3>>},
                 !.stack = Append(@, [num |-> n1 \div 3, at |-> "call"])]
        ELSE Return([m EXCEPT !.depth = @ - 1])

\* collatz_r() once collatz_r(num / 3) has returned.
collatz_r_third(m) == Return([m EXCEPT !.depth = @ - 1])

-----------------------------------------------------------------------------
(* The program as a state machine *)

\* stop = 1 << log2max
Ceilings == {Pow2(k) : k \in MinLog2 .. MaxLog2}

\* The statics of a fresh process.
Fresh(m) ==
    [m EXCEPT !.heap = <<>>, !.root = NULL, !.proven = NULL,
              !.provenFreed = FALSE, !.nodes = 0, !.maxnodes = 0,
              !.maxdepth = 0, !.maxrecurse = 0, !.depth = 0, !.queue = <<>>,
              !.qr = 0, !.qw = 0, !.aborted = FALSE, !.stack = <<>>,
              !.istack = <<>>, !.ret = FALSE, !.num = 0, !.ref = {},
              !.recorded = {}, !.expanded = {}, !.dropped = 0,
              !.lastIns = <<>>, !.before = NULL, !.steps = 0,
              !.pending = <<>>, !.qlast = NoOp, !.offered = {},
              !.deepest = 0, !.atCall = NULL, !.dispatched = {}]

Blank ==
    Fresh([heap |-> <<>>, root |-> NULL, proven |-> NULL,
           provenFreed |-> FALSE, nodes |-> 0, maxnodes |-> 0,
           maxdepth |-> 0, maxrecurse |-> 0, depth |-> 0, queue |-> <<>>,
           qr |-> 0, qw |-> 0, qsize |-> WORKQUEUE_SIZE,
           stop |-> Pow2(MinLog2), opt_i |-> FALSE, aborted |-> FALSE,
           stack |-> <<>>, istack |-> <<>>, ret |-> FALSE, num |-> 0,
           pc |-> "start", ref |-> {}, recorded |-> {}, expanded |-> {},
           dropped |-> 0, lastIns |-> <<>>, before |-> NULL, steps |-> 0,
           output |-> NULL, pending |-> <<>>, qlast |-> NoOp,
           offered |-> {}, deepest |-> 0, atCall |-> NULL,
           dispatched |-> {}])

\* main() has parsed its options: a ceiling 2^log2max and a strategy.
Init ==
    \E c \in Ceilings, i \in BOOLEAN :
        \E s \in IF i THEN {SmallQueue, WORKQUEUE_SIZE} ELSE {WORKQUEUE_SIZE} :
            Is([Blank EXCEPT !.stop = c, !.opt_i = i, !.qsize = s])

Start ==
    /\ pc = "start"
    /\ Becomes(collatz(State))

InsertEnter ==
    /\ ~aborted
    /\ istack # <<>>
    /\ istack[Len(istack)].at = "call"
    /\ Becomes(insert_enter(State))

InsertResume ==
    /\ ~aborted
    /\ istack # <<>>
    /\ istack[Len(istack)].at = "descended"
    /\ Becomes(insert_resume(State))

IterFetch ==
    /\ pc = "loop"
    /\ Becomes(collatz_i_fetch(State))

IterInserted ==
    /\ pc = "inserting"
    /\ istack = <<>>
    /\ Becomes(collatz_i_inserted(State))

RecEnter ==
    /\ pc = "rec"
    /\ Top(State).at = "call"
    /\ Becomes(collatz_r_enter(State))

RecInserted ==
    /\ pc = "rec"
    /\ istack = <<>>
    /\ Top(State).at = "insert"
    /\ Becomes(collatz_r_inserted(State))

RecDouble ==
    /\ pc = "rec"
    /\ Top(State).at = "double"
    /\ Becomes(collatz_r_double(State))

RecThird ==
    /\ pc = "rec"
    /\ Top(State).at = "third"
    /\ Becomes(collatz_r_third(State))

Next ==
    \/ Start
    \/ InsertEnter
    \/ InsertResume
    \/ IterFetch
    \/ IterInserted
    \/ RecEnter
    \/ RecInserted
    \/ RecDouble
    \/ RecThird

Spec == Init /\ [][Next]_vars

\* The program has a next step to take: it has neither returned from
\* collatz() nor aborted.  In every reachable state this is ENABLED <<Next>>_vars.
Running == pc \notin {"done", "aborted"}

\* The program is sequential and runs without suspension: it always takes
\* its next step.  This is weak fairness of Next, WF_vars(Next), spelled out
\* as "infinitely often not enabled, or infinitely often taken" with the
\* enabling condition written as the state predicate Running.
Fairness == []<>(~Running) \/ []<><<Next>>_vars

FairSpec == Spec /\ Fairness

-----------------------------------------------------------------------------
(* The tree under arbitrary insert() calls, starting from the seeded tree *)

InsInit == Is([Seed(Blank) EXCEPT !.pc = "test"])

\* insert(root, first, last) for any range within the model's bound.
InsertRange ==
    /\ pc = "test"
    /\ ~aborted
    /\ istack = <<>>
    /\ steps < MaxInserts
    /\ \E first \in 1 .. MaxVal, last \in 1 .. MaxVal :
          /\ first <= last
          /\ Becomes([CallInsert(State, first, last) EXCEPT
                         !.steps = @ + 1, !.before = NULL])

\* The same insert(root, first, last) call once more.
InsertAgain ==
    /\ pc = "test"
    /\ ~aborted
    /\ istack = <<>>
    /\ lastIns # <<>>
    /\ before = NULL
    /\ Becomes([CallInsert(State, lastIns[1], lastIns[2]) EXCEPT
                   !.before = <<heap>>])

InsNext == InsertRange \/ InsertAgain \/ InsertEnter \/ InsertResume

InsSpec == InsInit /\ [][InsNext]_vars

-----------------------------------------------------------------------------
(* The work queue under arbitrary work_append() and work_fetch() calls *)

\* A queue of SmallQueue slots, zero-initialised.
QInit == Is([Blank EXCEPT !.qsize = SmallQueue, !.pc = "queue"])

\* work_append(v) for any nonzero v within the model's bound.
QueueAppend ==
    /\ pc = "queue"
    /\ steps < MaxOps
    /\ \E v \in 1 .. MaxItem :
          Becomes([Push(State, v) EXCEPT !.steps = @ + 1])

\* work_fetch()
QueueFetch ==
    /\ pc = "queue"
    /\ steps < MaxOps
    /\ Becomes([Fetch(State).m EXCEPT !.num = Fetch(State).num,
                                      !.steps = @ + 1])

QNext == QueueAppend \/ QueueFetch

QSpec == QInit /\ [][QNext]_vars

-----------------------------------------------------------------------------
(* The program run with each strategy in turn, on the same ceiling *)

\* What the program reports of its final tree: the leaves fprintnodes()
\* prints and proven->last of the progress line.
Report(m) ==
    [leaves |-> fprintnodes(m.heap, m.root[1]),
     proven_last |-> m.heap[m.proven[1]].last]

EqInit ==
    \E c \in Ceilings : Is([Blank EXCEPT !.stop = c, !.opt_i = FALSE])

\* The recursive run is over; the program is started again with -i.
Relaunch ==
    /\ pc = "done"
    /\ ~opt_i
    /\ output = NULL
    /\ Becomes([Fresh(State) EXCEPT !.opt_i = TRUE, !.pc = "start",
                                    !.output = <<Report(State)>>])

EqNext == Next \/ Relaunch

EqSpec == EqInit /\ [][EqNext]_vars

-----------------------------------------------------------------------------
(* Properties *)

\* lookup(root, x)
Lookup(x) == lookup(heap, root[1], x)

\* No insert() call is in progress on a seeded tree.
Settled == root # NULL /\ istack = <<>> /\ ~aborted

\* The least set that holds 1 and 2, holds 4 below the ceiling c, and is
\* closed under v -> 2v (below c) and v -> (v - 1) / 3 when (v - 1) mod 6 = 3.
RECURSIVE Closure(_, _)
Closure(S, c) ==
    LET T == S \cup {2 * v : v \in {w \in S : 2 * w < c}}
               \cup {(v - 1) \div 3 : v \in {w \in S : (w - 1) % 6 = 3}}
    IN  IF T = S THEN S ELSE Closure(T, c)

Reference(c) == Closure({1, 2} \cup {v \in {4} : v < c}, c)

\* C1: after a run to completion with ceiling C and no dropped work, for
\* every n in [1, C-1], lookup(n) is true iff n is in the reference set of
\* values reachable by reverse Collatz steps from {1,2} below the ceiling.
C1_ReferenceSet ==
    (pc = "done" /\ dropped = 0) =>
        \A n \in 1 .. stop - 1 : Lookup(n) <=> n \in Reference(stop)

\* C2: after any sequence of insert calls on the seeded tree, lookup(x) is
\* true iff x lies in the union of [1,2] and all inserted ranges.
C2_Membership ==
    (pc = "test" /\ Settled) =>
        \A x \in 0 .. MaxVal + 1 : Lookup(x) <=> x \in ref

\* C3: for the same ceiling, the iterative run (no queue overflow) ends
\* with the same leaf ranges and the same proven.last as the recursive run.
C3_StrategyEquivalence ==
    (pc = "done" /\ output # NULL /\ dropped = 0) => Report(State) = output[1]

\* The shape of the node at address a of heap h.
Shape(h, a) ==
    LET n == h[a]
    IN  /\ (n.left = NULL) = (n.right = NULL)
        /\ IF LEAF_NODE(n)
           THEN n.covered = n.last - n.first + 1
           ELSE /\ n.first = h[n.left[1]].first
                /\ n.last = h[n.right[1]].last
                /\ n.covered = h[n.left[1]].covered + h[n.right[1]].covered
                /\ h[n.left[1]].last + 1 < h[n.right[1]].first

\* C4: after every completed insert call, every node is a leaf or has two
\* children; an internal node takes first, last and covered from its
\* children; a leaf covers its whole span; and the children of an internal
\* node are separated by at least one integer.
C4_TreeShape ==
    (pc = "test" /\ Settled) => \A a \in DOMAIN heap : Shape(heap, a)

\* A settled tree in which a child of the root is itself internal.
C4_Witness ==
    pc = "test" /\ Settled /\ \E a \in DOMAIN heap : Len(a) = 2

\* C5: at every point of a run between insert calls, root.covered is the
\* number of integers recorded: 1, 2 and every newly inserted point.
C5_Aggregate ==
    (pc # "test" /\ Settled) => heap[root[1]].covered = Cardinality(recorded)

\* C6: a second insert of the same range straight after the first returns
\* true and leaves lookup and the leaf ranges as they were.
C6_Idempotent ==
    (pc = "test" /\ Settled /\ before # NULL) =>
        /\ ret
        /\ fprintnodes(heap, root[1]) = fprintnodes(before[1], root[1])
        /\ \A x \in 0 .. MaxVal + 1 :
              Lookup(x) = lookup(before[1], root[1], x)

\* A repeated insert of a range of several integers has completed on a tree
\* with an internal node.
C6_Witness ==
    /\ pc = "test"
    /\ Settled
    /\ before # NULL
    /\ \E a \in DOMAIN heap : Len(a) = 1
    /\ lastIns[1] < lastIns[2]

\* C7 as stated: after a run with ceiling 1024, lookup(n) is true for
\* every n in [1, 1023].
C7_Original ==
    (pc = "done" /\ stop = 1024 /\ dropped = 0) =>
        \A n \in 1 .. 1023 : Lookup(n)

\* C7: after a run with ceiling 1024 and no dropped work, lookup is true
\* for 1, 2, 4, 8, 16, 5, 10 and 20, and false for 1023.
C7_ScenarioA ==
    (pc = "done" /\ stop = 1024 /\ dropped = 0) =>
        /\ \A n \in {1, 2, 4, 8, 16, 5, 10, 20} : Lookup(n)
        /\ ~Lookup(1023)

\* A run with ceiling 1024 has finished without dropping work.
C7_Witness == pc = "done" /\ stop = 1024 /\ dropped = 0 /\ opt_i

\* C8 as stated: with ceiling 8 the final tree has lookup(8) true and
\* lookup(16) false.
C8_Original ==
    (pc = "done" /\ stop = 8) => (Lookup(8) /\ ~Lookup(16))

\* C8: with ceiling 8 the run terminates, no candidate >= 8 is expanded,
\* and in the final tree lookup(4) is true while lookup(8) and lookup(16)
\* are false.
C8_ScenarioC ==
    /\ [](stop = 8 => <>(pc = "done"))
    /\ []((pc = "done" /\ stop = 8) =>
            /\ \A v \in expanded : v < 8
            /\ Lookup(4)
            /\ ~Lookup(8)
            /\ ~Lookup(16))

\* A run with ceiling 8 has finished, having expanded 4 only.
C8_Witness == pc = "done" /\ stop = 8 /\ expanded = {4}

\* C9: no candidate v >= C is passed to insert or expanded, root.last < C,
\* and lookup(x) is false for every x >= C.
C9_Ceiling ==
    /\ \A v \in ref \cup expanded : v < stop
    /\ \A i \in 1 .. Len(istack) : istack[i].last < stop
    /\ root # NULL =>
          /\ heap[root[1]].last < stop
          /\ \A x \in stop .. 2 * stop : ~Lookup(x)

\* The iterative run has just dropped a fetched candidate at the ceiling.
C9_Witness == pc = "loop" /\ num >= stop /\ Cardinality(expanded) > 1

\* C10: every run finishes, whatever the queue capacity: collatz_r(4) has
\* returned, or work_fetch() has found the queue empty, with no entry left
\* in it.
C10_Termination == <>(pc = "done" /\ stack = <<>> /\ DOMAIN queue = {})

\* An iterative run has finished although appends were dropped.
C10_Witness == pc = "done" /\ opt_i /\ dropped > 0

\* The queue holds the pending values, oldest at the read cursor, and
\* nothing else.
Stored ==
    /\ Len(pending) <= qsize
    /\ \A i \in 1 .. Len(pending) :
          QueueAt(queue, (qr + i - 1) % qsize) = pending[i]
    /\ Cardinality(DOMAIN queue) = Len(pending)

\* C11: work_append() returns true iff fewer than qsize entries are pending;
\* when it returns false the cursors and the stored entries are unchanged;
\* and the queue always holds the pending entries intact, in order.
C11_Overflow ==
    /\ Stored
    /\ qlast.op = "append" =>
          /\ qlast.ok <=> Len(qlast.pending) < qsize
          /\ ~qlast.ok =>
                /\ qr = qlast.qr
                /\ qw = qlast.qw
                /\ queue = qlast.queue
                /\ pending = qlast.pending

\* An append has been refused on a full queue whose cursors had wrapped.
C11_Witness ==
    /\ pc = "queue"
    /\ qlast.op = "append"
    /\ ~qlast.ok
    /\ Len(pending) = qsize
    /\ qr # 0

\* C12: work_fetch() returns 0 and changes nothing iff no entry is pending;
\* otherwise it returns the oldest pending entry, clears its slot and
\* advances the read cursor, and the entries behind it stay pending.
C12_Fifo ==
    qlast.op = "fetch" =>
        /\ (qlast.val = 0) <=> (qlast.pending = <<>>)
        /\ qlast.val = 0 =>
              /\ qr = qlast.qr
              /\ qw = qlast.qw
              /\ queue = qlast.queue
        /\ qlast.val # 0 =>
              /\ qlast.val = Head(qlast.pending)
              /\ pending = Tail(qlast.pending)
              /\ qr = (qlast.qr + 1) % qsize
              /\ qw = qlast.qw
              /\ QueueAt(queue, qlast.qr) = 0
              /\ Stored

\* A fetch has returned the oldest entry of a full queue, the others still
\* pending in their order.
C12_Witness ==
    /\ pc = "queue"
    /\ qlast.op = "fetch"
    /\ qlast.val # 0
    /\ Len(qlast.pending) = qsize
    /\ qlast.qr # 0
    /\ pending # <<>>
    /\ pending[1] # qlast.val

\* C19: WORKQUEUE_DEPTH is the number of pending entries.
C19_QueueDepth == WORKQUEUE_DEPTH(State) = Len(pending)

\* C13: between insert calls proven points to a live leaf that starts at 1
\* and is the leftmost leaf of the tree; every integer of [1, proven.last]
\* is lookup-true and proven.last + 1 is not.
C13_Proven ==
    Settled =>
        /\ proven # NULL
        /\ ~provenFreed
        /\ proven[1] \in DOMAIN heap
        /\ LEAF_NODE(heap[proven[1]])
        /\ heap[proven[1]].first = 1
        /\ \A i \in 1 .. Len(proven[1]) : proven[1][i] = "left"
        /\ \A x \in 1 .. heap[proven[1]].last : Lookup(x)
        /\ ~Lookup(heap[proven[1]].last + 1)

\* A coalescing insert has destroyed the leaf proven pointed to and left the
\* root as the only node, and proven points to the root.
C13_Witness ==
    /\ Settled
    /\ pc \in {"loop", "rec"}
    /\ maxdepth > 0
    /\ DOMAIN heap = {<<>>}
    /\ proven = <<<<>>>>

Forward(c) == IF c % 2 = 0 THEN c \div 2 ELSE 3 * c + 1

\* The candidates derived from the inserted value v.
Candidates(v) == {p[2] : p \in {q \in dispatched : q[1] = v}}

\* C15: every candidate derived from an inserted value v is a positive
\* integer whose forward Collatz step yields v, and when the run is over the
\* candidates derived from v are all such integers, with either strategy.
C15_Predecessors ==
    /\ \A p \in dispatched : p[1] \in expanded /\ p[2] > 0 /\ Forward(p[2]) = p[1]
    /\ pc = "done" =>
          \A v \in expanded :
              /\ v >= 3
              /\ \A c \in 1 .. 2 * v : Forward(c) = v => c \in Candidates(v)

\* A run is over in which 16 was inserted and 32 and 5 were derived from it.
C15_Witness ==
    /\ pc = "done"
    /\ 16 \in expanded
    /\ Candidates(16) = {32, 5}
    /\ dropped = 0

\* C16: no value passed to work_append() is the empty sentinel 0, and the
\* queue holds every accepted value until it is fetched.
C16_Sentinel == 0 \notin offered /\ Stored

\* An iterative run is over that has passed 1, the least candidate, to
\* work_append().
C16_Witness == pc = "done" /\ opt_i /\ 1 \in offered /\ 4 \in offered

\* The collatz_r() invocations that have been entered and have not returned.
Active ==
    Len(stack) - (IF stack # <<>> /\ Top(State).at = "call" THEN 1 ELSE 0)

\* C17: during a recursive run the static depth of collatz_r() is the
\* number of active invocations, and at the end of the run maxrecurse is the
\* largest number of invocations that were active at once.
C17_RecursionDepth ==
    /\ pc = "rec" => depth = Active
    /\ (pc = "done" /\ ~opt_i) => (depth = 0 /\ maxrecurse = deepest)

\* C18: nodes is the number of nodes in the tree and maxnodes the largest
\* number there has been.
C18_NodeCount ==
    Settled => (nodes = Cardinality(DOMAIN heap) /\ maxnodes >= nodes)

\* The range of insert() invocation i lies strictly between the children of
\* the node of invocation i - 1.
Between(i) ==
    LET par == heap[istack[i - 1].n]
    IN  /\ istack[i].first > heap[par.left[1]].last + 1
        /\ istack[i].last < heap[par.right[1]].first - 1

\* C20: the depth of every node is its distance from the root, so the
\* children of an internal node have equal depth, and an insert() of a range
\* strictly between the children of a node descends into the right child.
C20_Depth ==
    /\ \A a \in DOMAIN heap : heap[a].depth = Len(a)
    /\ \A a \in DOMAIN heap :
          ~LEAF_NODE(heap[a]) =>
              heap[heap[a].left[1]].depth = heap[heap[a].right[1]].depth
    /\ (istack # <<>> /\ istack[Len(istack)].at = "call") =>
          \A i \in 2 .. Len(istack) :
              Between(i) => istack[i].n = heap[istack[i - 1].n].right[1]

\* insert() has just descended twice, the second time with a range strictly
\* between the children of an internal child of the root.
C20_Witness ==
    /\ Len(istack) = 3
    /\ istack[3].at = "call"
    /\ Between(3)
    /\ heap[istack[3].n].depth = 2

=============================================================================
